---- MODULE Spec2Model ----
(***************************************************************************)
(* Model of the mail gateway's daily quota limiter                         *)
(* (app/services/atomic_rate_limit.py), of the two endpoints that call it  *)
(* (app/api/v1/mail.py, app/api/v1/usage.py), of the request session       *)
(* (app/db/session.py) and of the service-level callers of the test suite  *)
(* (tests/unit/services/test_atomic_rate_limit.py with the db_session      *)
(* fixture of tests/conftest.py), with the steps of a request that come    *)
(* before the limiter: authentication (app/core/deps.py,                   *)
(* app/services/auth.py) and the allowed recipients check of send_mail.    *)
(*                                                                         *)
(* The store is PostgreSQL at READ COMMITTED: SELECT ... FOR UPDATE locks  *)
(* a committed row and waits for a concurrent holder; a row inserted by an *)
(* open transaction is invisible to other sessions, and a second INSERT of *)
(* the same unique key waits for the first transaction and then either     *)
(* fails with IntegrityError (first committed) or proceeds (rolled back).  *)
(* The ORM session expires every loaded object on rollback; with an        *)
(* AsyncSession reading an attribute of an expired object raises.          *)
(***************************************************************************)
EXTENDS Integers, Sequences, FiniteSets, TLC

\* ---------------------------------------------------------------- bounds
NumReqs == 2
MaxCount == 2
MaxLimit == 2
MaxFaults == 1
MaxTicks == 3

\* the clock counts ticks; a day has SecondsPerDay seconds (86400 in the code)
TicksPerSecond == 2
SecondsPerDay == 2
TicksPerDay == TicksPerSecond * SecondsPerDay

\* offset of the local time from UTC, in ticks, of a server that runs in UTC
UtcOffsetTicks == 0

Reqs == 1..NumReqs
Keys == {"k1", "k2"}
Kinds == {"send", "usage", "call"}

\* Optional[int] column values: <<>> is NULL, <<n>> is the integer n
DailyLimits == {<<>>} \cup {<<n>> : n \in 0..(MaxLimit - 1)}

VARIABLES
    api_keys,             \* table api_keys: key id -> [daily_limit]
    default_daily_limit,  \* settings.default_daily_limit
    today,                \* the calendar day date.today() returns
    now,                  \* datetime.now(timezone.utc), in ticks since day 0
    tz,                   \* offset of the server's local time from UTC, in ticks
    http,                 \* headers and body of each request: [x_api_key, to]
    background_tasks,     \* requests whose delivery was handed to BackgroundTasks
    delivery,             \* background task of each request: [pc, message_id, transport, attempts, writes]
    response,             \* response of each request: [detail, remaining, retry_after, usage]
    daily_usage,          \* committed rows of table daily_usage
    next_id,              \* autoincrement sequence of daily_usage.id
    send_log,             \* committed rows of table send_logs
    pc,                   \* position of each request
    req,                  \* inputs of each request: [kind, key, count]
    txn,                  \* session of each request: [held, row, count, log, expired]
    loc,                  \* limiter locals: [day, limit, old]
    result,               \* RateLimitResult of the request's limiter call
    outcome,              \* what the caller of the request got back
    seed,                 \* history: today's count of the key before the first request
    faults,               \* internal faults still to be injected
    faulted,              \* history: the request hit an internal fault
    committed             \* history: the request's transaction was committed

vars == <<api_keys, default_daily_limit, today, now, tz, http, background_tasks, delivery, response,
          daily_usage, next_id, send_log,
          pc, req, txn, loc, result, outcome, seed, faults, faulted, committed>>

\* ---------------------------------------------------------------- helpers
NoReq == [kind |-> "none", key |-> "none", count |-> 0]
CleanTxn == [held |-> "none", row |-> 0, count |-> 0, log |-> FALSE, expired |-> FALSE]
NoLoc == [day |-> 0, limit |-> 0, old |-> 0, read |-> FALSE, retried |-> FALSE]
NoResult == [set |-> FALSE, allowed |-> FALSE, current_count |-> 0,
             retry_after_seconds |-> <<>>]
NoHttp == [x_api_key |-> <<>>, to |-> <<>>]
NoResponse == [detail |-> "", remaining |-> <<>>, retry_after |-> <<>>, usage |-> <<>>]
\* send_email_background has not been started for the request
NoDelivery == [pc |-> "none", message_id |-> <<>>, transport |-> "none", attempts |-> 0, writes |-> 0]

\* date.today(): the calendar day of the server's local time at instant t
LocalDate(t) == (t + tz) \div TicksPerDay

\* _get_next_midnight_utc: the start of the UTC day after instant t
NextMidnightUtc(t) == ((t \div TicksPerDay) + 1) * TicksPerDay

\* _calculate_retry_after_seconds: int() truncates the seconds until midnight
CalculateRetryAfterSeconds(t) == (NextMidnightUtc(t) - t) \div TicksPerSecond

\* the result of a call made at instant now: retry_after_seconds is None when
\* allowed and the seconds until the next UTC midnight when denied
RateLimitResult(a, c) ==
    [set |-> TRUE, allowed |-> a, current_count |-> c,
     retry_after_seconds |-> IF a THEN <<>> ELSE <<CalculateRetryAfterSeconds(now)>>]

\* ---- strings: sequences of characters; "A" is the upper case of "a"
\* str.lower()
Lower(s) == [i \in 1..Len(s) |-> IF s[i] = "A" THEN "a" ELSE s[i]]

RECURSIVE StripLeft(_)
StripLeft(s) == IF s # <<>> /\ Head(s) = " " THEN StripLeft(Tail(s)) ELSE s

RECURSIVE StripRight(_)
StripRight(s) ==
    IF s # <<>> /\ s[Len(s)] = " " THEN StripRight(SubSeq(s, 1, Len(s) - 1)) ELSE s

\* str.strip()
Strip(s) == StripRight(StripLeft(s))

\* recipients a request can name (EmailStr) and lists a key can store
Addresses == {<<"a">>, <<"A">>, <<"b">>}
AllowedRecipients ==
    {<<>>, << <<>> >>, << << <<" ", "A">> >> >>, << << <<"b", " ">>, <<>> >> >>}

\* values of the X-API-Key header: <<>> is a missing header
Credentials == {<<>>, <<"s1">>, <<"s2">>, <<"zz">>}

\* the plain key handed out when key k was created
SecretOf(k) == IF k = "k1" THEN "s1" ELSE "s2"

\* _hash_api_key / _verify_api_key: bcrypt, the salt left out
HashApiKey(x) == <<"bcrypt", x>>
VerifyApiKey(x, hashed) == hashed = HashApiKey(x)

\* a row of table api_keys
APIKey(k, dl, active, rcpts) ==
    [daily_limit |-> dl, is_active |-> active, allowed_recipients |-> rcpts,
     key_hash |-> HashApiKey(SecretOf(k))]

\* mutant: an inactive key is taken for a valid one
ValidateIgnoresActive(x) ==
    LET m == {k \in Keys : VerifyApiKey(x, api_keys[k].key_hash)} IN
    IF m = {} THEN [result |-> "invalid", key |-> "none"]
    ELSE [result |-> "valid", key |-> CHOOSE k \in m : TRUE]

\* AuthService.validate_api_key_detailed: the first key whose hash verifies
ValidateApiKeyDetailed(x) ==
    LET m == {k \in Keys : VerifyApiKey(x, api_keys[k].key_hash)} IN
    IF m = {} THEN [result |-> "invalid", key |-> "none"]
    ELSE LET k == CHOOSE k \in m : TRUE IN
         IF api_keys[k].is_active
         THEN [result |-> "valid", key |-> k]
         ELSE [result |-> "inactive", key |-> "none"]

\* mutant: the recipient is compared as sent, without strip and lower
RecipientAllowedExact(rcpts, to) ==
    IF rcpts = <<>> \/ rcpts[1] = <<>> THEN TRUE
    ELSE to \in {rcpts[1][i] : i \in 1..Len(rcpts[1])}

\* send_mail, lines 34-40: a NULL or empty list allows every recipient; else
\* the recipient is looked up, trimmed and lower-cased, in the list's entries
RecipientAllowed(rcpts, to) ==
    IF rcpts = <<>> \/ rcpts[1] = <<>> THEN TRUE
    ELSE Lower(Strip(to)) \in
            {Lower(Strip(rcpts[1][i])) : i \in {j \in 1..Len(rcpts[1]) : rcpts[1][j] # <<>>}}

\* mutant: only a NULL daily_limit falls back to the default
EffectiveDailyLimitNotNone(daily_limit, dflt) ==
    IF daily_limit = <<>> THEN dflt ELSE daily_limit[1]

\* _get_effective_daily_limit: NULL or non-positive falls back to the default
EffectiveDailyLimit(daily_limit, dflt) ==
    IF daily_limit = <<>> \/ daily_limit[1] <= 0 THEN dflt ELSE daily_limit[1]

\* mutant: the select does not filter on the day
RowsForAnyDay(k, d) == {u \in daily_usage : u.api_key_id = k}

\* the committed rows select(DailyUsage).where(api_key_id == k, day == d) sees
RowsFor(k, d) == {u \in daily_usage : u.api_key_id = k /\ u.day = d}

\* mutant: the select does not wait for the holder of the row
LockedByOtherIgnored(r, id) == FALSE

\* row-level lock taken by SELECT ... FOR UPDATE and held to end of transaction
LockedByOther(r, id) ==
    \E s \in Reqs \ {r} : txn[s].held = "lock" /\ txn[s].row = id

\* mutant: the insert does not wait for the pending insert of another session
InsertPendingByOtherIgnored(r, k, d) == FALSE

\* an open transaction of another session has inserted a row for (k, d)
InsertPendingByOther(r, k, d) ==
    \E s \in Reqs \ {r} : /\ txn[s].held = "insert"
                          /\ req[s].key = k
                          /\ loc[s].day = d

\* Session.rollback(): discards the transaction and expires loaded objects
Rollback(t) == [CleanTxn EXCEPT !.expired = TRUE]

\* mutant: the table has no unique constraint on (api_key_id, day)
UniqueViolationOff(k, d) == FALSE

\* the unique constraint uq_daily_usage_api_key_day rejects a second row of (k, d)
UniqueViolation(k, d) == RowsFor(k, d) # {}

\* mutant: the commit of a session does not persist its increment
CommitUsageDropped(t, k, d) == daily_usage

\* the rows of daily_usage after the transaction t of a session commits
CommitUsage(t, k, d) ==
    CASE t.held = "insert" ->
            daily_usage \cup {[id |-> t.row, api_key_id |-> k, day |-> d, count |-> t.count]}
      [] t.held = "lock" ->
            {IF u.id = t.row THEN [u EXCEPT !.count = t.count] ELSE u : u \in daily_usage}
      [] OTHER -> daily_usage

\* mutant: the session is committed even when the request raised
SessionExitCommits(t, k, d, raised) == CommitUsage(t, k, d)

\* get_async_session, lines 26-31: the rows of daily_usage after the session of
\* a request ends, by rollback when the request raised and by commit otherwise
SessionExit(t, k, d, raised) ==
    IF raised THEN daily_usage ELSE CommitUsage(t, k, d)

\* mutant: the requested count is taken off the stored count
NewCountDecrements(old, count) == old - count

\* mutant: the increment replaces the stored count
NewCountOverwrites(old, count) == count

\* mutant: a requested count of 0 is taken for the default of 1
NewCountDefaultsToOne(old, count) == old + (IF count = 0 THEN 1 ELSE count)

\* lines 71 / 128: usage.count = usage.count + email_count
NewCount(old, count) == old + count

\* mutant: a call that reaches the limit exactly is denied
CompareStrict(old, new, limit) ==
    IF new >= limit
    THEN RateLimitResult(FALSE, old)
    ELSE RateLimitResult(TRUE, new)

\* mutant: a call that adds nothing is allowed without the comparison
ComparePeekAllowed(old, new, limit) ==
    IF new > limit /\ new # old
    THEN RateLimitResult(FALSE, old)
    ELSE RateLimitResult(TRUE, new)

\* lines 74-88 and 90-101 (131-155 on the retry): compare the new count with
\* the limit; denied reports the old count, allowed the new one
Compare(old, new, limit) ==
    IF new > limit
    THEN RateLimitResult(FALSE, old)
    ELSE RateLimitResult(TRUE, new)

\* mutant: the send log is created with a message id already set
SendLogWithMessageId(id, k, to) ==
    [id |-> id, api_key_id |-> k, recipient |-> to, message_id |-> <<"m">>]

\* create_send_log: the send log row of a request, its message_id NULL
SendLog(id, k, to) ==
    [id |-> id, api_key_id |-> k, recipient |-> to, message_id |-> <<>>]

\* send_mail, line 129, and get_usage, lines 34-38: the limit the endpoints
\* compute with, the stored daily_limit unless it is None
ResponseLimit(daily_limit, dflt) == IF daily_limit # <<>> THEN daily_limit[1] ELSE dflt

\* send_mail, lines 129-132: the remaining quota of the queued response
Remaining(daily_limit, dflt, current_count, email_count) ==
    ResponseLimit(daily_limit, dflt) - (current_count + email_count)

\* larger of two integers
Max(a, b) == IF a >= b THEN a ELSE b

\* get_usage, lines 34-47: the statistics of the response; daily_limit is the
\* column of the key as stored
UsageStats(daily_limit, dflt, current_count, t) ==
    [daily_limit |-> daily_limit,
     emails_sent_today |-> current_count,
     emails_remaining |->
        Max(0, ResponseLimit(daily_limit, dflt) - current_count),
     reset_time |-> NextMidnightUtc(t)]

\* ---------------------------------------------------------------- initial state
\* a counter row of today written before the first request of the run
SeedRows(k, counts) ==
    {{}} \cup {{[id |-> 1, api_key_id |-> k, day |-> 0, count |-> c]} : c \in counts}

\* no request has arrived
InitRequests ==
    /\ send_log = {}
    /\ background_tasks = {}
    /\ delivery = [r \in Reqs |-> NoDelivery]
    /\ http = [r \in Reqs |-> NoHttp]
    /\ response = [r \in Reqs |-> NoResponse]
    /\ pc = [r \in Reqs |-> "idle"]
    /\ req = [r \in Reqs |-> NoReq]
    /\ txn = [r \in Reqs |-> CleanTxn]
    /\ loc = [r \in Reqs |-> NoLoc]
    /\ result = [r \in Reqs |-> NoResult]
    /\ outcome = [r \in Reqs |-> "none"]
    /\ faults = MaxFaults
    /\ faulted = [r \in Reqs |-> "none"]
    /\ committed = [r \in Reqs |-> FALSE]

\* the store and the sessions at start; over = 0 keeps earlier usage within the
\* limit of the key, over = 1 also starts from a key that is over its quota
InitWith(over) ==
    /\ default_daily_limit = MaxLimit
    /\ \E dl \in DailyLimits :
         /\ api_keys = [k \in Keys |->
                          APIKey(k, IF k = "k1" THEN dl ELSE <<>>, TRUE, <<>>)]
         /\ daily_usage \in SeedRows("k1", 0..(EffectiveDailyLimit(dl, MaxLimit) + over))
    /\ seed = IF daily_usage = {} THEN 0 ELSE (CHOOSE u \in daily_usage : TRUE).count
    /\ tz = UtcOffsetTicks
    /\ now = 0
    /\ today = LocalDate(now)
    /\ next_id = 2
    /\ InitRequests

Init == InitWith(0)

InitOver == InitWith(1)

\* ---------------------------------------------------------------- requests
\* counts a caller of each kind passes as email_count
CountsOf(kd) ==
    CASE kd = "send" -> {1}
      [] kd = "usage" -> {0}
      [] OTHER -> 0..MaxCount

\* a request of one of the kinds Kd arrives: get_db opens its session,
\* get_current_api_key loads the key
BeginKind(r, K, Kd) ==
    /\ pc[r] = "idle"
    /\ \A s \in 1..(r - 1) : pc[s] # "idle"
    /\ \E kd \in Kd, k \in K :
         \E c \in CountsOf(kd) :
            req' = [req EXCEPT ![r] = [kind |-> kd, key |-> k, count |-> c]]
    /\ pc' = [pc EXCEPT ![r] = "limit"]
    /\ UNCHANGED <<api_keys, default_daily_limit, today, now, tz, http,
                   background_tasks, delivery, response, seed, daily_usage, next_id, send_log,
                   txn, loc, result, outcome, faults, faulted, committed>>

\* a request of any kind arrives
Begin(r, K) == BeginKind(r, K, Kinds)

\* check_and_increment_rate_limit, lines 38-42: today and the effective limit
GetEffectiveLimit(r) ==
    /\ pc[r] = "limit"
    /\ loc' = [loc EXCEPT ![r] =
                 [NoLoc EXCEPT !.day = today,
                               !.limit = EffectiveDailyLimit(api_keys[req[r].key].daily_limit,
                                                             default_daily_limit)]]
    /\ pc' = [pc EXCEPT ![r] = "select"]
    /\ UNCHANGED <<api_keys, default_daily_limit, today, now, tz, http,
                   background_tasks, delivery, response, seed, daily_usage, next_id, send_log,
                   req, txn, result, outcome, faults, faulted, committed>>

\* the row was found and locked: lines 69-88 (and 127-142 on the retry)
FoundRow(r, u) ==
    /\ ~LockedByOther(r, u.id)
    /\ txn' = [txn EXCEPT ![r].held = "lock", ![r].row = u.id,
                          ![r].count = NewCount(u.count, req[r].count)]
    /\ loc' = [loc EXCEPT ![r].old = u.count, ![r].read = TRUE]
    /\ result' = [result EXCEPT ![r] =
                    Compare(u.count, NewCount(u.count, req[r].count), loc[r].limit)]
    /\ pc' = [pc EXCEPT ![r] = "returned"]

\* lines 52-61: SELECT ... FOR UPDATE of the row of (key, today)
SelectForUpdate(r) ==
    /\ pc[r] = "select"
    /\ LET rows == RowsFor(req[r].key, loc[r].day) IN
         IF rows # {}
         THEN \E u \in rows : FoundRow(r, u)
         ELSE /\ pc' = [pc EXCEPT ![r] = "insert"]
              /\ UNCHANGED <<txn, loc, result>>
    /\ UNCHANGED <<api_keys, default_daily_limit, today, now, tz, http,
                   background_tasks, delivery, response, seed, daily_usage, next_id, send_log,
                   req, outcome, faults, faulted, committed>>

\* lines 61-68 and 75-88: add the new row and flush; on IntegrityError
\* (lines 102-113) roll the session back and go to the retry
InsertFlush(r) ==
    /\ pc[r] = "insert"
    /\ IF UniqueViolation(req[r].key, loc[r].day)
       THEN /\ txn' = [txn EXCEPT ![r] = Rollback(txn[r])]
            /\ loc' = [loc EXCEPT ![r].retried = TRUE]
            /\ pc' = [pc EXCEPT ![r] = "retry"]
            /\ UNCHANGED <<result, next_id>>
       ELSE /\ ~InsertPendingByOther(r, req[r].key, loc[r].day)
            /\ txn' = [txn EXCEPT ![r].held = "insert", ![r].row = next_id,
                                  ![r].count = req[r].count]
            /\ next_id' = next_id + 1
            /\ loc' = [loc EXCEPT ![r].old = 0, ![r].read = TRUE]
            /\ result' = [result EXCEPT ![r] = Compare(0, req[r].count, loc[r].limit)]
            /\ pc' = [pc EXCEPT ![r] = "returned"]
    /\ UNCHANGED <<api_keys, default_daily_limit, today, now, tz, http,
                   background_tasks, delivery, response, seed, daily_usage, send_log,
                   req, outcome, faults, faulted, committed>>

\* mutant: the outer handler lets the call through
ErrorResultAllowed == RateLimitResult(TRUE, 0)

\* lines 157-170: the result of the outer handler, the call is denied
ErrorResult == RateLimitResult(FALSE, 0)

\* lines 115-155: the single retry after the collision
RetrySelect(r) ==
    /\ pc[r] = "retry"
    /\ LET rows == RowsFor(req[r].key, loc[r].day) IN
         IF rows # {}
         THEN \E u \in rows : FoundRow(r, u)
         ELSE \* ValueError, caught by the outer handler (lines 157-170)
              /\ result' = [result EXCEPT ![r] = ErrorResult]
              /\ pc' = [pc EXCEPT ![r] = "returned"]
              /\ UNCHANGED <<txn, loc>>
    /\ UNCHANGED <<api_keys, default_daily_limit, today, now, tz, http,
                   background_tasks, delivery, response, seed, daily_usage, next_id, send_log,
                   req, outcome, faults, faulted, committed>>

\* lines 157-170: an unexpected error of the store during the check; the
\* failed transaction holds nothing any more
LimiterFault(r) ==
    /\ pc[r] \in {"select", "insert", "retry"}
    /\ faults > 0
    /\ faults' = faults - 1
    /\ faulted' = [faulted EXCEPT ![r] = "limiter"]
    /\ txn' = [txn EXCEPT ![r].held = "none", ![r].row = 0, ![r].count = 0]
    /\ result' = [result EXCEPT ![r] = ErrorResult]
    /\ pc' = [pc EXCEPT ![r] = "returned"]
    /\ UNCHANGED <<api_keys, default_daily_limit, today, now, tz, http,
                   background_tasks, delivery, response, seed, daily_usage, next_id, send_log,
                   req, loc, outcome, committed>>

\* mutant: after a failed read of the limit the call goes on as if allowed
LimitReadFailedAllowed(r) == [RateLimitResult(FALSE, 0) EXCEPT !.allowed = TRUE]

\* lines 157-170: the statement after a failed one raises in the aborted
\* transaction and the outer handler denies with current_count 0
LimitReadFailed(r) == RateLimitResult(FALSE, 0)

\* _get_effective_daily_limit, lines 273-279: the read of the key's limit
\* fails; the error is logged and the default limit returned, in a
\* transaction the store has aborted
GetLimitFault(r) ==
    /\ pc[r] = "limit"
    /\ faults > 0
    /\ faults' = faults - 1
    /\ faulted' = [faulted EXCEPT ![r] = "limiter"]
    /\ loc' = [loc EXCEPT ![r] = [NoLoc EXCEPT !.day = today,
                                                !.limit = default_daily_limit]]
    /\ pc' = [pc EXCEPT ![r] = "aborted"]
    /\ UNCHANGED <<api_keys, default_daily_limit, today, now, tz, http,
                   background_tasks, delivery, response, seed, daily_usage, next_id, send_log,
                   req, txn, result, outcome, committed>>

\* lines 52-59 after a failed read of the limit: the SELECT ... FOR UPDATE
\* raises and the call returns the denial of lines 166-170
AbortedSelect(r) ==
    /\ pc[r] = "aborted"
    /\ result' = [result EXCEPT ![r] = LimitReadFailed(r)]
    /\ pc' = [pc EXCEPT ![r] = "returned"]
    /\ UNCHANGED <<api_keys, default_daily_limit, today, now, tz, http,
                   background_tasks, delivery, response, seed, daily_usage, next_id, send_log,
                   req, txn, loc, outcome, faults, faulted, committed>>

\* mutant: a request that raised ends without rolling its session back
FailKeepsLock(r, status) ==
    /\ daily_usage' = daily_usage
    /\ txn' = txn
    /\ outcome' = [outcome EXCEPT ![r] = status]
    /\ pc' = [pc EXCEPT ![r] = "done"]
    /\ UNCHANGED <<send_log, committed>>

\* get_async_session, lines 29-31: the request raised, the session rolls back
Fail(r, status) ==
    /\ daily_usage' = SessionExit(txn[r], req[r].key, loc[r].day, TRUE)
    /\ txn' = [txn EXCEPT ![r] = Rollback(txn[r])]
    /\ outcome' = [outcome EXCEPT ![r] = status]
    /\ pc' = [pc EXCEPT ![r] = "done"]
    /\ UNCHANGED <<send_log, committed>>

\* send_mail, lines 70-95: the denial; line 76 reads api_key.id
SendDenied(r) ==
    /\ pc[r] = "returned"
    /\ req[r].kind = "send"
    /\ ~result[r].allowed
    /\ Fail(r, IF txn[r].expired THEN "500" ELSE "429")
    /\ response' = [response EXCEPT ![r] =
                      IF txn[r].expired
                      THEN [NoResponse EXCEPT !.detail = "Internal Server Error"]
                      ELSE [NoResponse EXCEPT
                              !.detail = "Daily email limit exceeded",
                              !.retry_after = result[r].retry_after_seconds]]
    /\ UNCHANGED <<api_keys, default_daily_limit, today, now, tz, http,
                   background_tasks, delivery, seed, next_id,
                   req, loc, result, faults, faulted>>

\* send_mail, lines 97-99 and create_send_log: line 99 reads api_key.id; the
\* handler of lines 109-115 reads it again at line 110
CreateSendLog(r) ==
    /\ pc[r] = "returned"
    /\ req[r].kind = "send"
    /\ result[r].allowed
    /\ IF txn[r].expired
       THEN Fail(r, "500")
       ELSE /\ txn' = [txn EXCEPT ![r].log = TRUE]
            /\ pc' = [pc EXCEPT ![r] = "commit"]
            /\ UNCHANGED <<daily_usage, send_log, outcome, committed>>
    /\ UNCHANGED <<api_keys, default_daily_limit, today, now, tz, http,
                   background_tasks, delivery, response, seed, next_id,
                   req, loc, result, faults, faulted>>

\* send_mail, lines 100-142: db.commit() of the increment and the send log,
\* then the queued response
CommitSend(r) ==
    /\ pc[r] = "commit"
    /\ daily_usage' = CommitUsage(txn[r], req[r].key, loc[r].day)
    /\ send_log' = send_log \cup {SendLog(r, req[r].key, http[r].to)}
    /\ txn' = [txn EXCEPT ![r] = CleanTxn]
    /\ committed' = [committed EXCEPT ![r] = TRUE]
    /\ background_tasks' = background_tasks \cup {r}
    /\ response' = [response EXCEPT ![r] =
                      [NoResponse EXCEPT
                         !.detail = "queued",
                         !.remaining = <<Remaining(api_keys[req[r].key].daily_limit,
                                                   default_daily_limit,
                                                   result[r].current_count,
                                                   req[r].count)>>]]
    /\ outcome' = [outcome EXCEPT ![r] = "202"]
    /\ pc' = [pc EXCEPT ![r] = "done"]
    /\ UNCHANGED <<api_keys, default_daily_limit, today, now, tz, http, delivery, seed, next_id,
                   req, loc, result, faults, faulted>>

\* send_mail, lines 109-115: creating or committing the send log failed
AuditFault(r) ==
    /\ \/ pc[r] = "commit"
       \/ pc[r] = "returned" /\ req[r].kind = "send" /\ result[r].allowed
    /\ faults > 0
    /\ faults' = faults - 1
    /\ faulted' = [faulted EXCEPT ![r] = "audit"]
    /\ Fail(r, "500")
    /\ UNCHANGED <<api_keys, default_daily_limit, today, now, tz, http,
                   background_tasks, delivery, response, seed, next_id, req, loc, result>>

\* get_usage, lines 33-58, then get_async_session line 28 commits the session
UsageReturn(r) ==
    /\ pc[r] = "returned"
    /\ req[r].kind = "usage"
    /\ IF txn[r].expired
       THEN /\ Fail(r, "500")
            /\ UNCHANGED response
       ELSE /\ daily_usage' = SessionExit(txn[r], req[r].key, loc[r].day, FALSE)
            /\ txn' = [txn EXCEPT ![r] = CleanTxn]
            /\ committed' = [committed EXCEPT ![r] = TRUE]
            /\ response' = [response EXCEPT ![r] =
                              [NoResponse EXCEPT
                                 !.usage = <<UsageStats(api_keys[req[r].key].daily_limit,
                                                        default_daily_limit,
                                                        result[r].current_count, now)>>]]
            /\ outcome' = [outcome EXCEPT ![r] = "200"]
            /\ pc' = [pc EXCEPT ![r] = "done"]
            /\ UNCHANGED send_log
    /\ UNCHANGED <<api_keys, default_daily_limit, today, now, tz, http,
                   background_tasks, delivery, seed, next_id,
                   req, loc, result, faults, faulted>>

\* a service-level caller commits its session after an allowed call
CallCommit(r) ==
    /\ pc[r] = "returned"
    /\ req[r].kind = "call"
    /\ result[r].allowed
    /\ daily_usage' = CommitUsage(txn[r], req[r].key, loc[r].day)
    /\ txn' = [txn EXCEPT ![r] = CleanTxn]
    /\ committed' = [committed EXCEPT ![r] = TRUE]
    /\ outcome' = [outcome EXCEPT ![r] = "commit"]
    /\ pc' = [pc EXCEPT ![r] = "done"]
    /\ UNCHANGED <<api_keys, default_daily_limit, today, now, tz, http,
                   background_tasks, delivery, response, seed, next_id, send_log,
                   req, loc, result, faults, faulted>>

\* a service-level caller ends without commit: the fixture rolls back
CallRollback(r) ==
    /\ pc[r] = "returned"
    /\ req[r].kind = "call"
    /\ Fail(r, "rollback")
    /\ UNCHANGED <<api_keys, default_daily_limit, today, now, tz, http,
                   background_tasks, delivery, response, seed, next_id,
                   req, loc, result, faults, faulted>>

\* the requests without internal faults
Step(r) ==
    \/ Begin(r, {"k1"})
    \/ GetEffectiveLimit(r)
    \/ SelectForUpdate(r)
    \/ InsertFlush(r)
    \/ RetrySelect(r)
    \/ SendDenied(r)
    \/ CreateSendLog(r)
    \/ CommitSend(r)
    \/ UsageReturn(r)
    \/ CallCommit(r)
    \/ CallRollback(r)

Next == \E r \in Reqs : Step(r)

NextFault ==
    \/ \E r \in Reqs : Step(r)
    \/ \E r \in Reqs : LimiterFault(r)
    \/ \E r \in Reqs : AuditFault(r)

\* normal operation on a store whose earlier usage is within the limit
Spec == Init /\ [][Next]_vars

\* the same with internal faults of the store
SpecFault == Init /\ [][NextFault]_vars

\* normal operation, also starting from a key that is over its quota
SpecOver == InitOver /\ [][Next]_vars

\* ---------------------------------------------------------------- errors
\* the two endpoints with every internal fault: of the read of the limit, of
\* the statements of the check, of the send log
NextErrors ==
    \E r \in Reqs :
        \/ BeginKind(r, {"k1"}, {"send", "usage"})
        \/ GetEffectiveLimit(r)
        \/ GetLimitFault(r)
        \/ AbortedSelect(r)
        \/ SelectForUpdate(r)
        \/ InsertFlush(r)
        \/ RetrySelect(r)
        \/ LimiterFault(r)
        \/ SendDenied(r)
        \/ CreateSendLog(r)
        \/ CommitSend(r)
        \/ AuditFault(r)
        \/ UsageReturn(r)

SpecErrors == Init /\ [][NextErrors]_vars

\* ---------------------------------------------------------------- limits
\* values of the column api_keys.daily_limit, NULL, zero and negative included
Overrides == {<<>>} \cup {<<n>> : n \in (-1)..(MaxLimit + 1)}

\* a store without usage whose keys and default limit take every value
InitLimits ==
    /\ default_daily_limit \in 1..MaxLimit
    /\ \E o1, o2 \in Overrides :
         api_keys = [k \in Keys |-> APIKey(k, IF k = "k1" THEN o1 ELSE o2, TRUE, <<>>)]
    /\ daily_usage = {}
    /\ seed = 0
    /\ tz = UtcOffsetTicks
    /\ now = 0
    /\ today = LocalDate(now)
    /\ next_id = 2
    /\ InitRequests

\* a service-level caller calls the limiter once the call before it has ended
Call(r, K) ==
    /\ pc[r] = "idle"
    /\ \A s \in Reqs \ {r} : pc[s] = (IF s < r THEN "done" ELSE "idle")
    /\ \E k \in K, c \in 0..MaxCount :
         req' = [req EXCEPT ![r] = [kind |-> "call", key |-> k, count |-> c]]
    /\ pc' = [pc EXCEPT ![r] = "limit"]
    /\ UNCHANGED <<api_keys, default_daily_limit, today, now, tz, http,
                   background_tasks, delivery, response, seed, daily_usage, next_id, send_log,
                   txn, loc, result, outcome, faults, faulted, committed>>

NextLimits ==
    \E r \in Reqs :
        \/ Call(r, Keys)
        \/ GetEffectiveLimit(r)
        \/ SelectForUpdate(r)
        \/ InsertFlush(r)
        \/ CallCommit(r)
        \/ CallRollback(r)

\* calls in sequence on keys with every kind of limit
SpecLimits == InitLimits /\ [][NextLimits]_vars

\* ---------------------------------------------------------------- days
\* half a day before the midnight that ends day 1; key k1 (daily_limit 1) used
\* its quota on day 0 and key k2 (default limit) has used its quota of day 1
InitDays ==
    /\ default_daily_limit = MaxLimit
    /\ api_keys = [k \in Keys |-> APIKey(k, IF k = "k1" THEN <<1>> ELSE <<>>, TRUE, <<>>)]
    /\ daily_usage = {[id |-> 1, api_key_id |-> "k1", day |-> 0, count |-> 1],
                      [id |-> 2, api_key_id |-> "k2", day |-> 1, count |-> MaxLimit]}
    /\ seed = 0
    /\ tz = UtcOffsetTicks
    /\ now = 2 * TicksPerDay - TicksPerSecond
    /\ today = LocalDate(now)
    /\ next_id = 3
    /\ InitRequests

\* the clock advances by one tick
Tick ==
    /\ now + 1 <= 2 * TicksPerDay - TicksPerSecond + MaxTicks
    /\ now' = now + 1
    /\ today' = LocalDate(now')
    /\ UNCHANGED <<api_keys, default_daily_limit, tz, http, background_tasks, delivery,
                   response, daily_usage, next_id, send_log, pc, req, txn, loc, result, outcome,
                   seed, faults, faulted, committed>>

\* the requests on both keys
StepDays(r) ==
    \/ BeginKind(r, Keys, {"send", "usage"})
    \/ GetEffectiveLimit(r)
    \/ SelectForUpdate(r)
    \/ InsertFlush(r)
    \/ RetrySelect(r)
    \/ SendDenied(r)
    \/ CreateSendLog(r)
    \/ CommitSend(r)
    \/ UsageReturn(r)

NextDays ==
    \/ \E r \in Reqs : StepDays(r)
    \/ Tick

\* requests on two keys while the clock runs over midnight
SpecDays == InitDays /\ [][NextDays]_vars

\* ---------------------------------------------------------------- upsert strategy
\* UsageTrackingService.get_daily_limit, line 33: the stored daily_limit unless
\* it is None
GetDailyLimit(daily_limit, dflt) == IF daily_limit # <<>> THEN daily_limit[1] ELSE dflt

\* UsageTrackingService.get_usage_for_day: a plain SELECT of the committed
\* count, 0 without a row
GetUsageForDay(k, d) ==
    LET rows == RowsFor(k, d) IN
    IF rows = {} THEN 0 ELSE (CHOOSE u \in rows : TRUE).count

\* check_daily_limit, lines 60-71
WithinDailyLimit(current_usage, email_count, daily_limit) ==
    ~((current_usage + email_count) > daily_limit)

\* a caller of the usage tracking service arrives with its recipients
Track(r, K) ==
    /\ pc[r] = "idle"
    /\ \A s \in 1..(r - 1) : pc[s] # "idle"
    /\ \E k \in K, c \in 1..MaxCount :
         req' = [req EXCEPT ![r] = [kind |-> "track", key |-> k, count |-> c]]
    /\ pc' = [pc EXCEPT ![r] = "check"]
    /\ UNCHANGED <<api_keys, default_daily_limit, today, now, tz, http,
                   background_tasks, delivery, response, seed, daily_usage, next_id, send_log,
                   txn, loc, result, outcome, faults, faulted, committed>>

\* UsageTrackingService.check_daily_limit: the caller goes on to record only
\* when the check passes
CheckDailyLimit(r) ==
    /\ pc[r] = "check"
    /\ LET current_usage == GetUsageForDay(req[r].key, today)
           daily_limit == GetDailyLimit(api_keys[req[r].key].daily_limit,
                                        default_daily_limit)
           allowed == WithinDailyLimit(current_usage, req[r].count, daily_limit)
       IN  /\ loc' = [loc EXCEPT ![r] = [NoLoc EXCEPT !.day = today,
                                                       !.limit = daily_limit,
                                                       !.old = current_usage,
                                                       !.read = TRUE]]
           /\ result' = [result EXCEPT ![r] =
                            [NoResult EXCEPT !.set = TRUE, !.allowed = allowed,
                                             !.current_count = current_usage]]
           /\ pc' = [pc EXCEPT ![r] = IF allowed THEN "record" ELSE "done"]
           /\ outcome' = [outcome EXCEPT ![r] = IF allowed THEN "none" ELSE "denied"]
    /\ UNCHANGED <<api_keys, default_daily_limit, today, now, tz, http,
                   background_tasks, delivery, response, seed, daily_usage, next_id, send_log,
                   req, txn, faults, faulted, committed>>

\* UsageTrackingService.record_email_sends, lines 91-102: INSERT ... ON
\* CONFLICT DO UPDATE SET count = count + excluded.count; the statement waits
\* for a transaction that holds the row or is inserting it, then adds to the
\* committed count
RecordEmailSends(r) ==
    /\ pc[r] = "record"
    /\ LET rows == RowsFor(req[r].key, today) IN
         IF rows # {}
         THEN /\ \E u \in rows :
                   /\ ~LockedByOther(r, u.id)
                   /\ txn' = [txn EXCEPT ![r].held = "lock", ![r].row = u.id,
                                         ![r].count = u.count + req[r].count,
                                         ![r].log = TRUE]
              /\ UNCHANGED next_id
         ELSE /\ ~InsertPendingByOther(r, req[r].key, today)
              /\ txn' = [txn EXCEPT ![r].held = "insert", ![r].row = next_id,
                                    ![r].count = req[r].count, ![r].log = TRUE]
              /\ next_id' = next_id + 1
    /\ loc' = [loc EXCEPT ![r].day = today]
    /\ pc' = [pc EXCEPT ![r] = "recorded"]
    /\ UNCHANGED <<api_keys, default_daily_limit, today, now, tz, http,
                   background_tasks, delivery, response, seed, daily_usage, send_log,
                   req, result, outcome, faults, faulted, committed>>

\* record_email_sends, lines 81-88: one send log row for each recipient
TrackedSendLogs(r, k, n) ==
    {[id |-> <<r, i>>, api_key_id |-> k, recipient |-> <<"a">>, message_id |-> <<>>] :
       i \in 1..n}

\* the caller commits its session
TrackCommit(r) ==
    /\ pc[r] = "recorded"
    /\ daily_usage' = CommitUsage(txn[r], req[r].key, loc[r].day)
    /\ send_log' = send_log \cup TrackedSendLogs(r, req[r].key, req[r].count)
    /\ txn' = [txn EXCEPT ![r] = CleanTxn]
    /\ committed' = [committed EXCEPT ![r] = TRUE]
    /\ outcome' = [outcome EXCEPT ![r] = "commit"]
    /\ pc' = [pc EXCEPT ![r] = "done"]
    /\ UNCHANGED <<api_keys, default_daily_limit, today, now, tz, http,
                   background_tasks, delivery, response, seed, next_id,
                   req, loc, result, faults, faulted>>

\* key k1 has a positive limit of its own or the default, and earlier usage
\* of today within that limit
InitUpsert ==
    /\ default_daily_limit = MaxLimit
    /\ \E dl \in {<<>>} \cup {<<n>> : n \in 1..MaxLimit} :
         /\ api_keys = [k \in Keys |->
                          APIKey(k, IF k = "k1" THEN dl ELSE <<>>, TRUE, <<>>)]
         /\ daily_usage \in SeedRows("k1", 0..GetDailyLimit(dl, MaxLimit))
    /\ seed = IF daily_usage = {} THEN 0 ELSE (CHOOSE u \in daily_usage : TRUE).count
    /\ tz = UtcOffsetTicks
    /\ now = 0
    /\ today = LocalDate(now)
    /\ next_id = 2
    /\ InitRequests

NextUpsert ==
    \E r \in Reqs :
        \/ Track(r, Keys)
        \/ CheckDailyLimit(r)
        \/ RecordEmailSends(r)
        \/ TrackCommit(r)

\* concurrent check-then-record sequences of the usage tracking service
SpecUpsert == InitUpsert /\ [][NextUpsert]_vars

\* ---------------------------------------------------------------- key creation
\* a key that has not been created
NoKey == [daily_limit |-> <<>>, is_active |-> FALSE, allowed_recipients |-> <<>>,
          key_hash |-> <<>>]

\* keys that exist
Created == {k \in Keys : api_keys[k] # NoKey}

\* AuthService.create_api_key, line 108: the daily_limit column of the new key
StoredDailyLimit(daily_limit) == daily_limit

\* AuthService.create_api_key and the commit of its caller
CreateApiKey(k, daily_limit) ==
    /\ api_keys[k] = NoKey
    /\ \A r \in Reqs : pc[r] \in {"idle", "done"}
    /\ api_keys' = [api_keys EXCEPT ![k] = APIKey(k, StoredDailyLimit(daily_limit), TRUE, <<>>)]
    /\ UNCHANGED <<default_daily_limit, today, now, tz, http, background_tasks, delivery,
                   response, daily_usage, next_id, send_log, pc, req, txn, loc, result,
                   outcome, seed, faults, faulted, committed>>

\* no key exists yet
InitKeys ==
    /\ default_daily_limit = MaxLimit
    /\ api_keys = [k \in Keys |-> NoKey]
    /\ daily_usage = {}
    /\ seed = 0
    /\ tz = UtcOffsetTicks
    /\ now = 0
    /\ today = LocalDate(now)
    /\ next_id = 2
    /\ InitRequests

NextKeys ==
    \/ \E k \in Keys, o \in Overrides : CreateApiKey(k, o)
    \/ \E r \in Reqs :
          \/ Call(r, Created)
          \/ GetEffectiveLimit(r)
          \/ SelectForUpdate(r)
          \/ InsertFlush(r)
          \/ CallCommit(r)
          \/ CallRollback(r)

\* keys are created with every kind of limit and then used
SpecKeys == InitKeys /\ [][NextKeys]_vars

\* ---------------------------------------------------------------- time zones
\* offsets of the local time of the server: date.today() follows the TZ of
\* the process, one second west of UTC, UTC, one second east
UtcOffsets == {-TicksPerSecond, UtcOffsetTicks, TicksPerSecond}

\* one second before UTC midnight on a server of any of the zones; key k1 has
\* used up its limit of 1 on the local day
InitZones ==
    /\ default_daily_limit = MaxLimit
    /\ api_keys = [k \in Keys |-> APIKey(k, IF k = "k1" THEN <<1>> ELSE <<>>, TRUE, <<>>)]
    /\ tz \in UtcOffsets
    /\ now = 2 * TicksPerDay - TicksPerSecond
    /\ today = LocalDate(now)
    /\ daily_usage = {[id |-> 1, api_key_id |-> "k1", day |-> today, count |-> 1]}
    /\ seed = 0
    /\ next_id = 2
    /\ InitRequests

SpecZones == InitZones /\ [][NextDays]_vars

\* ---------------------------------------------------------------- the gate
\* key k1 is active and may restrict its recipients, key k2 is disabled
InitGate ==
    /\ default_daily_limit = MaxLimit
    /\ \E rcpts \in AllowedRecipients :
         api_keys = [k \in Keys |->
                       IF k = "k1" THEN APIKey(k, <<1>>, TRUE, rcpts)
                                   ELSE APIKey(k, <<>>, FALSE, <<>>)]
    /\ daily_usage = {}
    /\ seed = 0
    /\ tz = UtcOffsetTicks
    /\ now = 0
    /\ today = LocalDate(now)
    /\ next_id = 2
    /\ InitRequests

\* a request of one of the kinds Kd arrives with an X-API-Key header of X and,
\* for a send, a recipient of To
RequestWith(r, Kd, X, To) ==
    /\ pc[r] = "idle"
    /\ \A s \in 1..(r - 1) : pc[s] # "idle"
    /\ \E kd \in Kd, x \in X, to \in To :
         /\ req' = [req EXCEPT ![r] = [kind |-> kd, key |-> "none",
                                       count |-> CHOOSE c \in CountsOf(kd) : TRUE]]
         /\ http' = [http EXCEPT ![r] = [x_api_key |-> x, to |-> to]]
    /\ pc' = [pc EXCEPT ![r] = "auth"]
    /\ UNCHANGED <<api_keys, default_daily_limit, today, now, tz,
                   background_tasks, delivery, response, seed, daily_usage, next_id, send_log,
                   txn, loc, result, outcome, faults, faulted, committed>>

\* a request arrives with its X-API-Key header and, for a send, its recipient
Request(r) == RequestWith(r, {"send", "usage"}, Credentials, Addresses)

\* an HTTPException raised before the limiter: the session rolls back
Reject(r, status, detail) ==
    /\ Fail(r, status)
    /\ response' = [response EXCEPT ![r] = [NoResponse EXCEPT !.detail = detail]]
    /\ UNCHANGED req

\* get_current_api_key: 401 without header, 403 for a disabled key, 401 for an
\* unknown one; else the key of the request is the validated key
GetCurrentApiKey(r) ==
    /\ pc[r] = "auth"
    /\ IF http[r].x_api_key = <<>>
       THEN Reject(r, "401", "Missing X-API-Key header")
       ELSE LET v == ValidateApiKeyDetailed(http[r].x_api_key[1]) IN
            CASE v.result = "inactive" -> Reject(r, "403", "API key is disabled")
              [] v.result = "invalid" -> Reject(r, "401", "Invalid API key")
              [] OTHER ->
                   /\ req' = [req EXCEPT ![r].key = v.key]
                   /\ pc' = [pc EXCEPT ![r] =
                                IF req[r].kind = "send" THEN "allowlist" ELSE "limit"]
                   /\ UNCHANGED <<daily_usage, send_log, txn, outcome, response, committed>>
    /\ UNCHANGED <<api_keys, default_daily_limit, today, now, tz, http,
                   background_tasks, delivery, seed, next_id, loc, result, faults, faulted>>

\* send_mail, lines 33-49: the allowed recipients check
CheckAllowedRecipients(r) ==
    /\ pc[r] = "allowlist"
    /\ IF RecipientAllowed(api_keys[req[r].key].allowed_recipients, http[r].to)
       THEN /\ pc' = [pc EXCEPT ![r] = "limit"]
            /\ UNCHANGED <<daily_usage, send_log, txn, outcome, response, committed, req>>
       ELSE Reject(r, "403", "Recipient is not allowed for this API key")
    /\ UNCHANGED <<api_keys, default_daily_limit, today, now, tz, http,
                   background_tasks, delivery, seed, next_id, loc, result, faults, faulted>>

NextGate ==
    \E r \in Reqs :
        \/ Request(r)
        \/ GetCurrentApiKey(r)
        \/ CheckAllowedRecipients(r)
        \/ GetEffectiveLimit(r)
        \/ SelectForUpdate(r)
        \/ InsertFlush(r)
        \/ RetrySelect(r)
        \/ SendDenied(r)
        \/ CreateSendLog(r)
        \/ CommitSend(r)
        \/ UsageReturn(r)

\* requests from their arrival, through authentication and the recipient check
SpecGate == InitGate /\ [][NextGate]_vars

\* ---------------------------------------------------------------- delivery
\* identifiers MailerService.send_email returns: the id found in the SMTP
\* response, or a generated msg_ id
MessageIds == {<<"m1">>, <<"m2">>}

\* how MailerService.send_email ends: it returns the message id, it returns None
\* after the SMTP send raised (lines 129-138), or it raises ValueError before
\* the send (lines 46-56)
TransportOutcomes == {"returned", "failed", "raised"}

\* the task is waiting in the BackgroundTasks of its response, which runs
\* every task it was given once
QueuedAgain(r) == r \in background_tasks

Queued(r) == r \in background_tasks /\ delivery[r].pc = "none"

\* send_email_background, lines 76 and 91: the message_id handed to
\* update_send_log_message_id
MessageIdArgument(transport, id) == IF transport = "returned" THEN id ELSE <<>>

\* update(SendLog).where(SendLog.id == log_id).values(message_id=message_id)
UpdatedSendLogDropsFailed(rows, log_id, message_id) ==
    {IF s.id = log_id THEN [s EXCEPT !.message_id = message_id] ELSE s :
       s \in {t \in rows : t.id # log_id \/ message_id # <<>>}}

UpdatedSendLog(rows, log_id, message_id) ==
    {IF s.id = log_id THEN [s EXCEPT !.message_id = message_id] ELSE s : s \in rows}

\* the response was sent: BackgroundTasks starts send_email_background, which
\* calls mailer.send_email (line 65)
SendEmailBackground(r) ==
    /\ Queued(r)
    /\ delivery' = [delivery EXCEPT ![r].pc = "sending",
                                    ![r].attempts = delivery[r].attempts + 1]
    /\ UNCHANGED <<api_keys, default_daily_limit, today, now, tz, http, background_tasks,
                   response, seed, daily_usage, next_id, send_log,
                   pc, req, txn, loc, result, outcome, faults, faulted, committed>>

\* MailerService.send_email ends
SendEmail(r) ==
    /\ delivery[r].pc = "sending"
    /\ \E o \in TransportOutcomes, m \in MessageIds :
         delivery' = [delivery EXCEPT
                        ![r].pc = "update",
                        ![r].transport = o,
                        ![r].message_id = IF o = "returned" THEN m ELSE <<>>]
    /\ UNCHANGED <<api_keys, default_daily_limit, today, now, tz, http, background_tasks,
                   response, seed, daily_usage, next_id, send_log,
                   pc, req, txn, loc, result, outcome, faults, faulted, committed>>

\* update_send_log_message_id, lines 49-51: the UPDATE and its commit in a
\* session of their own
UpdateSendLogMessageId(r) ==
    /\ delivery[r].pc = "update"
    /\ send_log' = UpdatedSendLog(send_log, r,
                                  MessageIdArgument(delivery[r].transport,
                                                    delivery[r].message_id))
    /\ delivery' = [delivery EXCEPT ![r].pc = "done",
                                    ![r].writes = delivery[r].writes + 1]
    /\ UNCHANGED <<api_keys, default_daily_limit, today, now, tz, http, background_tasks,
                   response, seed, daily_usage, next_id,
                   pc, req, txn, loc, result, outcome, faults, faulted, committed>>

\* update_send_log_message_id, lines 59-60: the session, the UPDATE or its
\* commit raised; the error is logged and the task ends
UpdateFault(r) ==
    /\ delivery[r].pc = "update"
    /\ faults > 0
    /\ faults' = faults - 1
    /\ faulted' = [faulted EXCEPT ![r] = "update"]
    /\ delivery' = [delivery EXCEPT ![r].pc = "done"]
    /\ UNCHANGED <<api_keys, default_daily_limit, today, now, tz, http, background_tasks,
                   response, seed, daily_usage, next_id, send_log,
                   pc, req, txn, loc, result, outcome, committed>>

\* key k1 is active, with or without an override of 1, and may send to "a";
\* key k2 is disabled
InitDelivery ==
    /\ default_daily_limit = MaxLimit
    /\ \E dl \in {<<>>, <<1>>} :
         api_keys = [k \in Keys |->
                       IF k = "k1" THEN APIKey(k, dl, TRUE, << << <<" ", "A">> >> >>)
                                   ELSE APIKey(k, <<>>, FALSE, <<>>)]
    /\ daily_usage = {}
    /\ seed = 0
    /\ tz = UtcOffsetTicks
    /\ now = 0
    /\ today = LocalDate(now)
    /\ next_id = 2
    /\ InitRequests

\* the steps of the background task of request r
Deliver(r) ==
    \/ SendEmailBackground(r)
    \/ SendEmail(r)
    \/ UpdateSendLogMessageId(r)
    \/ UpdateFault(r)

NextDelivery ==
    \E r \in Reqs :
        \/ RequestWith(r, {"send"}, {<<"s1">>, <<"zz">>}, {<<"a">>, <<"b">>})
        \/ GetCurrentApiKey(r)
        \/ CheckAllowedRecipients(r)
        \/ GetEffectiveLimit(r)
        \/ SelectForUpdate(r)
        \/ InsertFlush(r)
        \/ RetrySelect(r)
        \/ SendDenied(r)
        \/ CreateSendLog(r)
        \/ CommitSend(r)
        \/ AuditFault(r)
        \/ Deliver(r)

\* sends from their arrival to the end of their background delivery
SpecDelivery == InitDelivery /\ [][NextDelivery]_vars

\* the event loop runs every started task on: a queued task is started, a
\* transport call ends, the handler goes on to its update
DeliveryFairness ==
    \A r \in Reqs :
        /\ WF_vars(SendEmailBackground(r))
        /\ WF_vars(SendEmail(r))
        /\ WF_vars(UpdateSendLogMessageId(r) \/ UpdateFault(r))

SpecDeliveryFair == SpecDelivery /\ DeliveryFairness

\* ---------------------------------------------------------------- the ledger
\* sends and peeks on key k1 from the limiter to the end of the background
\* delivery, with the faults of the limiter, of the send log and of the update
NextLedger ==
    \E r \in Reqs :
        \/ BeginKind(r, {"k1"}, {"send", "usage"})
        \/ GetEffectiveLimit(r)
        \/ SelectForUpdate(r)
        \/ InsertFlush(r)
        \/ RetrySelect(r)
        \/ LimiterFault(r)
        \/ SendDenied(r)
        \/ CreateSendLog(r)
        \/ CommitSend(r)
        \/ AuditFault(r)
        \/ UsageReturn(r)
        \/ Deliver(r)

SpecLedger == InitOver /\ [][NextLedger]_vars

\* ---------------------------------------------------------------- scheduling
\* the steps of the handler of request r after its arrival, with the fault
\* of the send log
Handler(r) ==
    \/ GetEffectiveLimit(r)
    \/ SelectForUpdate(r)
    \/ InsertFlush(r)
    \/ RetrySelect(r)
    \/ SendDenied(r)
    \/ CreateSendLog(r)
    \/ CommitSend(r)
    \/ AuditFault(r)
    \/ UsageReturn(r)

\* sends and peeks over both keys
NextLive ==
    \E r \in Reqs :
        \/ BeginKind(r, Keys, {"send", "usage"})
        \/ Handler(r)

SpecLive == InitOver /\ [][NextLive]_vars

\* the event loop and the database run every handler that can take a step: a
\* coroutine that is not waiting for a row is resumed, and a statement that
\* waits for a row is resumed when the holder's transaction has ended
HandlerFairness == \A r \in Reqs : WF_vars(Handler(r))

SpecLiveFair == SpecLive /\ HandlerFairness

\* ---------------------------------------------------------------- one session
\* a caller that holds one service and one session calls the limiter again:
\* call r runs in the session of the call before it, with the rows that
\* session has loaded, changed and not yet committed or rolled back
SessionCall(r) ==
    /\ pc[r] = "idle"
    /\ \A s \in Reqs \ {r} : pc[s] = (IF s < r THEN "done" ELSE "idle")
    /\ \E c \in 0..MaxCount :
         req' = [req EXCEPT ![r] = [kind |-> "call", key |-> "k1", count |-> c]]
    /\ txn' = IF r > 1 THEN [txn EXCEPT ![r] = txn[r - 1], ![r - 1] = CleanTxn]
                        ELSE txn
    /\ pc' = [pc EXCEPT ![r] = "limit"]
    /\ UNCHANGED <<api_keys, default_daily_limit, today, now, tz, http,
                   background_tasks, delivery, response, seed, daily_usage, next_id, send_log,
                   loc, result, outcome, faults, faulted, committed>>

\* lines 52-77 in a session that has used the row before: the query flushes
\* the session's pending count, and usage is the object the session holds
SessionSelect(r) ==
    /\ pc[r] = "select"
    /\ IF txn[r].held = "none"
       THEN SelectForUpdate(r)
       ELSE /\ txn' = [txn EXCEPT ![r].count = NewCount(txn[r].count, req[r].count)]
            /\ loc' = [loc EXCEPT ![r].old = txn[r].count, ![r].read = TRUE]
            /\ result' = [result EXCEPT ![r] =
                            Compare(txn[r].count, NewCount(txn[r].count, req[r].count),
                                    loc[r].limit)]
            /\ pc' = [pc EXCEPT ![r] = "returned"]
            /\ UNCHANGED <<api_keys, default_daily_limit, today, now, tz, http,
                           background_tasks, delivery, response, seed, daily_usage, next_id,
                           send_log, req, outcome, faults, faulted, committed>>

\* the call has returned and the caller goes on with the same session
SessionReturn(r) ==
    /\ pc[r] = "returned"
    /\ outcome' = [outcome EXCEPT ![r] = "returned"]
    /\ pc' = [pc EXCEPT ![r] = "done"]
    /\ UNCHANGED <<api_keys, default_daily_limit, today, now, tz, http,
                   background_tasks, delivery, response, seed, daily_usage, next_id, send_log,
                   req, txn, loc, result, faults, faulted, committed>>

\* the caller commits the session after the call, whatever its result
SessionCommit(r) ==
    /\ pc[r] = "returned"
    /\ daily_usage' = CommitUsage(txn[r], req[r].key, loc[r].day)
    /\ txn' = [txn EXCEPT ![r] = CleanTxn]
    /\ committed' = [committed EXCEPT ![r] = TRUE]
    /\ outcome' = [outcome EXCEPT ![r] = "commit"]
    /\ pc' = [pc EXCEPT ![r] = "done"]
    /\ UNCHANGED <<api_keys, default_daily_limit, today, now, tz, http,
                   background_tasks, delivery, response, seed, next_id, send_log,
                   req, loc, result, faults, faulted>>

NextSession ==
    \E r \in Reqs :
        \/ SessionCall(r)
        \/ GetEffectiveLimit(r)
        \/ SessionSelect(r)
        \/ InsertFlush(r)
        \/ SessionReturn(r)
        \/ SessionCommit(r)
        \/ CallRollback(r)

\* calls in sequence through one service and one session
SpecSession == Init /\ [][NextSession]_vars

TypeOK ==
    /\ pc \in [Reqs -> {"idle", "auth", "allowlist", "limit", "aborted", "select", "insert",
                         "retry", "returned", "commit", "done",
                         "check", "record", "recorded"}]
    /\ \A r \in Reqs : delivery[r].pc \in {"none", "sending", "update", "done"}
    /\ \A u \in daily_usage : u.count \in Nat


\* ---------------------------------------------------------------- properties
RECURSIVE SumCount(_)
\* the sum of the requested counts of a set of requests
SumCount(S) ==
    IF S = {} THEN 0
    ELSE LET r == CHOOSE x \in S : TRUE IN req[r].count + SumCount(S \ {r})

RECURSIVE SumRows(_)
SumRows(U) ==
    IF U = {} THEN 0
    ELSE LET u == CHOOSE x \in U : TRUE IN u.count + SumRows(U \ {u})

\* the committed count of (k, d): 0 when there is no row
StoredCount(k, d) == SumRows(RowsFor(k, d))

\* the effective limit of key k
Limit(k) == EffectiveDailyLimit(api_keys[k].daily_limit, default_daily_limit)

\* today's usage of key k before the first request
Seed(k) == IF k = "k1" THEN seed ELSE 0

AllDone == \A r \in Reqs : pc[r] = "done"

Allowed(r) == result[r].set /\ result[r].allowed

\* denied by the comparison with the limit, not by an internal error
QuotaDenied(r) == result[r].set /\ ~result[r].allowed /\ loc[r].read

\* the transaction of the request ended without commit
RolledBack(r) == pc[r] = "done" /\ ~committed[r]

AllowedOn(k) == {r \in Reqs : req[r].key = k /\ Allowed(r)}

C2_NoLostUpdate ==
    AllDone =>
        \A k \in Keys :
            StoredCount(k, 0) = Seed(k) + SumCount({r \in AllowedOn(k) : committed[r]})

\* two requests incremented the same row one after the other and both committed
C2_Witness ==
    /\ AllDone
    /\ \E r1, r2 \in Reqs :
        /\ r1 # r2
        /\ Allowed(r1) /\ committed[r1] /\ req[r1].count > 0
        /\ Allowed(r2) /\ committed[r2] /\ req[r2].count > 0
        /\ loc[r2].old = result[r1].current_count

Outcomes(S, status) == {r \in S : outcome[r] = status}

\* C3: N concurrent single-email sends on a key without usage today and with
\* limit L < N, without internal fault: exactly L are accepted and exactly
\* N - L are denied as rate limited.
C3_ExactlyEnoughDenied ==
    ( /\ AllDone
      /\ seed = 0
      /\ \A r \in Reqs : req[r].kind = "send" /\ req[r].key = "k1"
      /\ Limit("k1") < NumReqs )
    => /\ Cardinality(Outcomes(Reqs, "202")) = Limit("k1")
       /\ Cardinality(Outcomes(Reqs, "429")) = NumReqs - Limit("k1")

\* C4: a send request that collided on the unique constraint while creating
\* the first row of the day ends as a normal accepted or quota-denied response.
C4_CollisionTransparent ==
    \A r \in Reqs :
        (req[r].kind = "send" /\ loc[r].retried /\ pc[r] = "done")
            => outcome[r] \in {"202", "429"}

\* C5: in every reachable state there is at most one committed counter row per
\* (key, day), also after two requests raced to create the first row.
C5_OneRowPerKeyDay ==
    \A u1, u2 \in daily_usage :
        (u1.api_key_id = u2.api_key_id /\ u1.day = u2.day) => u1 = u2

\* a request lost the race for the first row and its transaction ended
C5_Witness ==
    \E r \in Reqs :
        /\ loc[r].retried
        /\ pc[r] = "done"
        /\ Cardinality(RowsFor(req[r].key, loc[r].day)) = 1

C7_AllowedIffWithinLimit ==
    \A r \in Reqs :
        (result[r].set /\ loc[r].read) =>
            /\ result[r].allowed <=> (loc[r].old + req[r].count <= Limit(req[r].key))
            /\ pc[r] = "returned" => loc[r].old = StoredCount(req[r].key, loc[r].day)

\* one call reached the limit exactly and was allowed, another one would have
\* made the count limit + 1 and was denied
C7_Witness ==
    \E r1, r2 \in Reqs :
        /\ Allowed(r1) /\ req[r1].count > 0
        /\ loc[r1].old + req[r1].count = Limit(req[r1].key)
        /\ QuotaDenied(r2)
        /\ loc[r2].old + req[r2].count = Limit(req[r2].key) + 1

\* C8: an allowed call returns currentCount = oldCount + requestedCount, with
\* oldCount = 0 when (key, day) has no row, and when its transaction commits
\* the stored count of (key, day) goes from oldCount to that value.
C8_AllowedStoresNewCount ==
    /\ [](\A r \in Reqs :
            Allowed(r) =>
                /\ result[r].current_count = loc[r].old + req[r].count
                /\ pc[r] = "returned" => loc[r].old = StoredCount(req[r].key, loc[r].day))
    /\ [][\A r \in Reqs :
            (Allowed(r) /\ ~committed[r] /\ committed'[r]) =>
                /\ StoredCount(req[r].key, loc[r].day) = loc[r].old
                /\ StoredCount(req[r].key, loc[r].day)' = loc[r].old + req[r].count]_vars

\* the first call of the day created the row with its count and a later call
\* went on from it: the results are the prefix sums
C8_Witness ==
    /\ seed = 0
    /\ \E r1, r2 \in Reqs :
        /\ r1 # r2
        /\ committed[r1] /\ committed[r2]
        /\ req[r1].count > 0 /\ req[r2].count > 0
        /\ loc[r1].old = 0 /\ result[r1].current_count = req[r1].count
        /\ result[r2].current_count = req[r1].count + req[r2].count
        /\ \E u \in daily_usage : u.id > 1 /\ u.count = result[r2].current_count

\* C9: a call with requestedCount = 0 reports the stored count, and no step of
\* its request changes the stored count of any (key, day): peeks in sequence
\* leave the count alone and report the same value.
C9_PeekIdempotent ==
    /\ [](\A r \in Reqs :
            (req[r].count = 0 /\ result[r].set) =>
                /\ result[r].current_count = loc[r].old
                /\ pc[r] = "returned" =>
                       result[r].current_count = StoredCount(req[r].key, loc[r].day))
    /\ [][\A r \in Reqs :
            (req'[r].count = 0 /\ pc'[r] # pc[r]) =>
                \A k \in Keys : StoredCount(k, 0)' = StoredCount(k, 0)]_vars

\* two peeks in sequence on a key with usage today reported the same count
C9_Witness ==
    \E r1, r2 \in Reqs :
        /\ r1 # r2
        /\ req[r1].kind = "usage" /\ req[r2].kind = "usage"
        /\ outcome[r1] = "200" /\ outcome[r2] = "200"
        /\ result[r1].current_count > 0
        /\ result[r1].current_count = result[r2].current_count
        /\ StoredCount("k1", 0) = result[r1].current_count

\* C10: a peek goes through the limit comparison: it is denied when the stored
\* count is over the limit and allowed otherwise, and it reports the stored
\* count; without usage today it reports 0 and allowed=true.
C10_PeekCompared ==
    \A r \in Reqs :
        (req[r].count = 0 /\ result[r].set) =>
            /\ result[r].allowed <=> (loc[r].old <= Limit(req[r].key))
            /\ result[r].current_count = loc[r].old
            /\ pc[r] = "returned" => loc[r].old = StoredCount(req[r].key, loc[r].day)
            /\ (seed = 0 /\ \A s \in Reqs : ~committed[s]) =>
                   (result[r].allowed /\ result[r].current_count = 0)

\* a peek on a key that is over its quota was denied
C10_Witness ==
    \E r \in Reqs :
        /\ req[r].count = 0
        /\ result[r].set /\ ~result[r].allowed
        /\ loc[r].old > Limit(req[r].key)
        /\ result[r].current_count = loc[r].old

\* C11: the limit the limiter enforces is the key's daily_limit when it is
\* present and strictly positive, whatever the default, and the default when it
\* is absent, zero or negative; a call is allowed exactly within that limit.
C11_OverridePrecedence ==
    \A r \in Reqs :
        pc[r] \notin {"idle", "limit"} =>
            LET o == api_keys[req[r].key].daily_limit
                L == loc[r].limit
            IN /\ o = <<>> => L = default_daily_limit
               /\ (o # <<>> /\ o[1] <= 0) => L = default_daily_limit
               /\ (o # <<>> /\ o[1] > 0) => L = o[1]
               /\ (result[r].set /\ loc[r].read) =>
                      (result[r].allowed <=> loc[r].old + req[r].count <= L)

\* a key with daily_limit above the default was allowed past the default, and a
\* key with a zero or negative daily_limit was denied just past the default
C11_Witness ==
    \E r1, r2 \in Reqs :
        /\ Allowed(r1) /\ result[r1].current_count > default_daily_limit
        /\ api_keys[req[r1].key].daily_limit # <<>>
        /\ api_keys[req[r1].key].daily_limit[1] > default_daily_limit
        /\ QuotaDenied(r2)
        /\ api_keys[req[r2].key].daily_limit # <<>>
        /\ api_keys[req[r2].key].daily_limit[1] <= 0
        /\ loc[r2].old + req[r2].count = default_daily_limit + 1

CeilDiv(a, b) == (a + b - 1) \div b

\* C13: every denied result carries retryAfterSeconds equal to the ceiling of
\* the seconds from the instant of the call to the next UTC midnight, which is
\* at least 1 and at most the seconds of a day.
C13_RetryAfterIsCeiling ==
    [][\A r \in Reqs :
          (~result[r].set /\ result'[r].set /\ ~result'[r].allowed) =>
              LET s == result'[r].retry_after_seconds[1] IN
              /\ s = CeilDiv(NextMidnightUtc(now) - now, TicksPerSecond)
              /\ s >= 1
              /\ s <= SecondsPerDay]_vars

\* the committed count of key k on day d, read off the table
CounterOf(k, d) == SumRows({u \in daily_usage : u.api_key_id = k /\ u.day = d})

\* C14: a step of a request on (k, d) changes no counter row of another key or
\* day, and the call is decided on the stored count of (k, d) alone: usage of
\* another day or key, at its limit or not, does not restrict it.
C14_CountersIsolated ==
    /\ [](\A r \in Reqs :
            (result[r].set /\ loc[r].read) =>
                /\ result[r].allowed <=>
                       (loc[r].old + req[r].count <= Limit(req[r].key))
                /\ pc[r] = "returned" =>
                       loc[r].old = CounterOf(req[r].key, loc[r].day))
    /\ [][\A r \in Reqs :
            pc'[r] # pc[r] =>
                \A u \in (daily_usage \cup daily_usage') :
                    (u.api_key_id # req'[r].key \/ u.day # loc'[r].day) =>
                        (u \in daily_usage /\ u \in daily_usage')]_vars

\* with yesterday's counter of the key and today's counter of the other key at
\* their limits, a send of the key was accepted today and both rows are as
\* they were
C14_Witness ==
    \E r \in Reqs :
        /\ req[r].kind = "send" /\ req[r].key = "k1"
        /\ outcome[r] = "202"
        /\ loc[r].day = 1 /\ loc[r].old = 0
        /\ CounterOf("k1", 0) = Limit("k1")
        /\ CounterOf("k2", 1) = Limit("k2")
        /\ CounterOf("k1", 1) = 1

\* the send log rows and the delivery of request r
LogsOf(r) == {l \in send_log : l.id = r}

\* request r has touched neither a counter row nor the send log nor a delivery
Untouched(r) ==
    /\ loc[r] = NoLoc
    /\ ~result[r].set
    /\ txn[r].held = "none" /\ ~txn[r].log
    /\ ~committed[r]
    /\ LogsOf(r) = {}
    /\ r \notin background_tasks

\* C15: a send whose call was denied creates no send log row and starts no
\* delivery, and it is answered 429 with the limiter's retryAfterSeconds.
C15_NoAuditOnDeny ==
    \A r \in Reqs :
        (req[r].kind = "send" /\ result[r].set /\ ~result[r].allowed) =>
            /\ ~txn[r].log
            /\ LogsOf(r) = {}
            /\ r \notin background_tasks
            /\ pc[r] = "done" =>
                  /\ outcome[r] = "429"
                  /\ response[r].retry_after = result[r].retry_after_seconds

\* the key of request r restricts recipients and the recipient, trimmed and
\* lower-cased, is none of its entries
NotPermitted(r) ==
    LET rcpts == api_keys[req[r].key].allowed_recipients IN
    /\ rcpts # <<>>
    /\ rcpts[1] # <<>>
    /\ \A i \in 1..Len(rcpts[1]) :
          Lower(Strip(rcpts[1][i])) # Lower(Strip(http[r].to))

\* C16: a send to a recipient the key does not permit is rejected as Forbidden
\* without any counter row or send log row being read, locked, created or
\* changed; a send of a key with a NULL or empty list, or to a permitted
\* recipient, is not rejected for its recipient.
C16_AllowlistFirst ==
    /\ [](\A r \in Reqs :
            (req[r].kind = "send" /\ req[r].key # "none"
             /\ pc[r] \notin {"idle", "auth", "allowlist"}) =>
                IF NotPermitted(r)
                THEN /\ pc[r] = "done"
                     /\ outcome[r] = "403"
                     /\ response[r].detail = "Recipient is not allowed for this API key"
                     /\ Untouched(r)
                ELSE response[r].detail # "Recipient is not allowed for this API key")
    /\ [][\A r \in Reqs :
            (pc[r] = "allowlist" /\ pc'[r] = "done") =>
                /\ daily_usage' = daily_usage
                /\ send_log' = send_log
                /\ background_tasks' = background_tasks
                /\ \A s \in Reqs \ {r} : txn'[s] = txn[s]]_vars

\* a send to a recipient outside the list was rejected, and a send whose
\* recipient matches an entry only after trimming and lower-casing was accepted
C16_Witness ==
    \E r1, r2 \in Reqs :
        /\ outcome[r1] = "403"
        /\ response[r1].detail = "Recipient is not allowed for this API key"
        /\ outcome[r2] = "202"
        /\ api_keys["k1"].allowed_recipients = << << <<" ", "A">> >> >>
        /\ http[r2].to = <<"a">>

\* the X-API-Key header of request r is that of no key
UnknownKey(r) ==
    /\ http[r].x_api_key # <<>>
    /\ \A k \in Keys : SecretOf(k) # http[r].x_api_key[1]

\* the X-API-Key header of request r is that of a disabled key
InactiveKey(r) ==
    /\ http[r].x_api_key # <<>>
    /\ \E k \in Keys : SecretOf(k) = http[r].x_api_key[1] /\ ~api_keys[k].is_active

C19_AcceptedAfterAudit ==
    /\ [](\A r \in Reqs :
            outcome[r] = "202" => (LogsOf(r) # {} /\ committed[r]))
    /\ [][\A r \in Reqs :
            (outcome'[r] = "202" /\ outcome[r] # "202") =>
                /\ Cardinality(LogsOf(r)') = 1
                /\ \A l \in LogsOf(r)' :
                      /\ l.message_id = <<>>
                      /\ l.api_key_id = req[r].key]_vars

\* one send was accepted with its send log row committed while another, whose
\* send log could not be written, ended 500 without a row
C19_Witness ==
    \E r1, r2 \in Reqs :
        /\ outcome[r1] = "202"
        /\ \E l \in LogsOf(r1) : l.message_id = <<>>
        /\ faulted[r2] = "audit"
        /\ outcome[r2] = "500"
        /\ LogsOf(r2) = {}

\* C20: the remaining quota of an accepted send is effectiveLimit - newCount,
\* newCount being the count the limiter returned, and it is never negative.
C20_RemainingIsLimitMinusNewCount ==
    \A r \in Reqs :
        outcome[r] = "202" =>
            /\ response[r].remaining = <<Limit(req[r].key) - result[r].current_count>>
            /\ response[r].remaining[1] >= 0

\* the send log row of request r
LogOf(r) == CHOOSE s \in send_log : s.id = r

\* the background task of request r has ended
Delivered(r) == delivery[r].pc = "done"

\* the handler of request r has committed an UPDATE of its row's message_id
Written(r) == delivery[r].writes > 0

\* C21: once the asynchronous delivery of an accepted send has ended, the
\* message_id of its send log row has been written: with the identifier the
\* transport returned, or with NULL when the transport reported a failure or
\* raised.
C21_DeliveryIdentifierWritten ==
    \A r \in Reqs :
        Delivered(r) =>
            /\ Written(r)
            /\ LogsOf(r) # {}
            /\ LogOf(r).message_id =
                  (IF delivery[r].transport = "returned" THEN delivery[r].message_id
                                                        ELSE <<>>)
            /\ delivery[r].transport = "returned" => delivery[r].message_id \in MessageIds

\* the message_id of the send log row of request r is changed by the step
MessageIdWrite(r) == delivery'[r].writes # delivery[r].writes

\* the step keeps every row of the send log as it is
SendLogKept == send_log' = send_log

\* the step is taken by the background task of request r alone: no session of
\* a request, no counter row and no row lock is touched
BackgroundOnly(r) ==
    /\ delivery[r].pc = "update" /\ delivery'[r].pc = "done"
    /\ txn' = txn /\ pc' = pc /\ daily_usage' = daily_usage

\* C22: the message_id of the send log row of an accepted send is written
\* exactly once after the row was created, by the background handler, in a
\* session of its own: the write touches no request session, and it is never
\* kept waiting by a lock on a counter row.
C22_WrittenOnceBySeparateSession ==
    /\ [](\A r \in Reqs :
            /\ delivery[r].writes <= 1
            /\ Written(r) => (committed[r] /\ LogsOf(r) # {})
            /\ Delivered(r) => delivery[r].writes = 1
            /\ delivery[r].pc = "update" => ENABLED UpdateSendLogMessageId(r))
    /\ [][\A r \in Reqs :
            /\ MessageIdWrite(r) => BackgroundOnly(r)
            /\ (LogsOf(r) # {} /\ ~MessageIdWrite(r)) => LogsOf(r)' = LogsOf(r)]_vars

\* C23: every committed send log row is eventually resolved: when the
\* background task and the transport run to completion, the message_id of the
\* row of each accepted send is eventually written, with the identifier or
\* with the explicit NULL of a failure.
C23_EventuallyResolved ==
    \A r \in Reqs : (LogsOf(r) # {}) ~> Written(r)

\* request r was answered with a rejection or a denial
Refused(r) == outcome[r] \in {"401", "403", "429", "500"}

\* C24: at most one delivery attempt is started for an accepted send log row,
\* and none for a request that was rejected or denied: for a bad credential,
\* a recipient that is not allowed, a rate limit denial or a failed creation
\* of the send log row.
C24_AtMostOneAttempt ==
    \A r \in Reqs :
        /\ delivery[r].attempts <= 1
        /\ delivery[r].pc # "none" => delivery[r].attempts = 1
        /\ (delivery[r].attempts > 0 \/ r \in background_tasks) =>
              /\ outcome[r] = "202"
              /\ committed[r]
              /\ Cardinality(LogsOf(r)) = 1
        /\ Refused(r) =>
              /\ delivery[r] = NoDelivery
              /\ r \notin background_tasks
              /\ LogsOf(r) = {}

\* one send was accepted and its delivery was attempted and has ended, the
\* other was denied by the rate limit
C24_Witness ==
    \E r, q \in Reqs :
        /\ Delivered(r) /\ delivery[r].attempts = 1 /\ outcome[r] = "202"
        /\ outcome[q] = "429" /\ QuotaDenied(q)
        /\ \A t \in Reqs : delivery[t].pc \in {"none", "done"}

\* the step belongs to the background task of request r
DeliveryStep(r) == delivery'[r] # delivery[r]

\* the send log rows without their message_id
Audit(rows) == {[id |-> l.id, api_key_id |-> l.api_key_id, recipient |-> l.recipient] :
                  l \in rows}

\* the delivery of request r has ended without an identifier
DeliveryFailed(r) == Delivered(r) /\ delivery[r].transport \in {"failed", "raised"}

\* C25: a delivery, whatever its outcome, leaves the counter of (key, day) and
\* the existence of the send log row as the accept left them: after a failed
\* delivery the row is still there and its unit of quota is still counted.
C25_DeliveryLeavesAcceptAlone ==
    /\ [](\A r \in Reqs :
            delivery[r].pc # "none" =>
                /\ Cardinality(LogsOf(r)) = 1
                /\ CounterOf(req[r].key, loc[r].day) >=
                      Cardinality({q \in Reqs : delivery[q].pc # "none"
                                                 /\ req[q].key = req[r].key}))
    /\ [][\A r \in Reqs :
            DeliveryStep(r) =>
                /\ daily_usage' = daily_usage
                /\ Audit(send_log') = Audit(send_log)
                /\ Cardinality(send_log') = Cardinality(send_log)
                /\ txn' = txn /\ committed' = committed /\ outcome' = outcome]_vars

\* a delivery failed, its row and its unit of quota are kept, and the key's
\* other send is denied for quota
C25_Witness ==
    \E r, q \in Reqs :
        /\ DeliveryFailed(r) /\ Written(r)
        /\ LogsOf(r) # {} /\ LogOf(r).message_id = <<>>
        /\ CounterOf("k1", today) = 1 /\ Limit("k1") = 1
        /\ outcome[q] = "429" /\ QuotaDenied(q) /\ pc[q] = "done"

\* the step answers the usage request r with its statistics
UsageAnswered(r) == outcome[r] # "200" /\ outcome'[r] = "200"

\* C26: the usage endpoint reports, for the key of the request, the effective
\* limit the limiter enforces as daily limit, the committed count of today as
\* used, max(0, limit - used) as remaining and the next UTC midnight as reset
\* time; the read changes none of them.
C26_UsageReportsEffectiveLimit ==
    [][\A r \in Reqs :
          UsageAnswered(r) =>
              LET u == response'[r].usage[1]
                  k == req[r].key
                  used == CounterOf(k, LocalDate(now))
              IN  /\ u.daily_limit = <<Limit(k)>>
                  /\ u.emails_sent_today = used
                  /\ u.emails_remaining = Max(0, Limit(k) - used)
                  /\ u.reset_time = (now \div TicksPerDay + 1) * TicksPerDay
                  /\ CounterOf(k, LocalDate(now))' = used
                  /\ api_keys' = api_keys
                  /\ default_daily_limit' = default_daily_limit]_vars

\* the UTC calendar day of instant t
UtcDate(t) == t \div TicksPerDay

\* the step reads the day of the call of request r
DayRead(r) == pc[r] = "limit" /\ pc'[r] = "select"

\* the step ends the call of request r with a denial for quota
DeniedNow(r) ==
    /\ ~result[r].set
    /\ result'[r].set /\ ~result'[r].allowed /\ loc'[r].read

\* C27: the counter is keyed by the UTC calendar day, and the window resets
\* at UTC midnight: retryAfterSeconds after a denial for quota the limiter
\* keys its counter by a later day than the one the denied call was counted
\* against, so a retry made then finds a fresh counter.
C27_ResetsAtUtcMidnight ==
    [][\A r \in Reqs :
          /\ DayRead(r) => loc'[r].day = UtcDate(now)
          /\ DeniedNow(r) =>
                LET retry == now + result'[r].retry_after_seconds[1] * TicksPerSecond
                IN  /\ LocalDate(retry) > loc'[r].day
                    /\ UtcDate(retry) > UtcDate(now)]_vars

\* C28: a key created with a daily limit of zero or a negative number stores
\* no override: the stored limit of every created key is absent or strictly
\* positive.
C28_NoNonPositiveOverrideStored ==
    \A k \in Created :
        api_keys[k].daily_limit = <<>> \/ api_keys[k].daily_limit[1] > 0

\* the step answers the send request r with the queued response
SendAnswered(r) == outcome[r] # "202" /\ outcome'[r] = "202"

\* C29: one precedence rule is applied everywhere: for every key, with the
\* override absent, zero or positive, the limit behind the remaining of the
\* send response and of the usage response is the effective limit the limiter
\* used when it decided the call of that request.
C29_OnePrecedenceRule ==
    [][\A r \in Reqs :
          /\ SendAnswered(r) =>
                response'[r].remaining[1] + result[r].current_count + req[r].count
                  = loc[r].limit
          /\ UsageAnswered(r) =>
                response'[r].usage[1].emails_remaining
                  = Max(0, loc[r].limit - result[r].current_count)]_vars

\* the retry of the call of request r could not complete
RetryFailed(r) == loc[r].retried /\ faulted[r] = "limiter"

\* C30: the retry after a collision is bounded: a call re-reads the row at
\* most once, the step after the collision is the one re-read and it ends the
\* call with a result; when the retry cannot complete the result is a denial.
\* No call reads again after its retry, and every call that has ended has a
\* result.
C30_RetryBounded ==
    /\ [](\A r \in Reqs :
            /\ RetryFailed(r) => (result[r].set /\ ~result[r].allowed)
            /\ pc[r] \in {"returned", "commit", "done"} => result[r].set)
    /\ [][\A r \in Reqs :
            /\ (pc'[r] = "retry" /\ pc[r] # "retry") =>
                  (pc[r] = "insert" /\ ~loc[r].retried /\ loc'[r].retried)
            /\ (pc[r] = "retry" /\ pc'[r] # "retry") =>
                  (pc'[r] = "returned" /\ result'[r].set)
            /\ loc[r].retried =>
                  (loc'[r].retried /\ pc'[r] \notin {"limit", "select", "insert"})]_vars

\* one call retried after a collision and its re-read failed: it ended denied;
\* the call it collided with was allowed
C30_Witness ==
    \E r, q \in Reqs :
        /\ RetryFailed(r) /\ pc[r] = "returned"
        /\ result[r].set /\ ~result[r].allowed
        /\ Allowed(q) /\ committed[q]

\* request q holds the counter of (k, d): its locked row or its pending insert
Holds(q, k, d) == txn[q].held # "none" /\ req[q].key = k /\ loc[q].day = d

\* the step decides the call of request r by the comparison with the limit
DecidedNow(r) == ~result[r].set /\ result'[r].set /\ loc'[r].read

\* request r is at the read of a row another request has locked, or at the
\* insert of a row another request is creating
Waiting(r) ==
    \E q \in Reqs \ {r} :
        /\ Holds(q, req[r].key, loc[r].day)
        /\ \/ pc[r] \in {"select", "retry"} /\ txn[q].held = "lock"
           \/ pc[r] = "insert" /\ txn[q].held = "insert"
                               /\ RowsFor(req[r].key, loc[r].day) = {}

\* C31: while a request holds the counter of (key, day), from its call to its
\* commit or rollback, no other call for the same (key, day) decides: it
\* waits, and when it decides no one else holds the counter and the count it
\* decides on is the committed one. This holds when the row exists and when
\* the holder is creating it.
C31_LedgerExclusive ==
    /\ [](\A r \in Reqs :
            /\ \A q \in Reqs \ {r} :
                  ~(txn[r].held # "none" /\ Holds(q, req[r].key, loc[r].day))
            /\ Waiting(r) =>
                  ~ENABLED (SelectForUpdate(r) \/ InsertFlush(r) \/ RetrySelect(r)))
    /\ [][\A r \in Reqs :
            DecidedNow(r) =>
                /\ \A q \in Reqs \ {r} : ~Holds(q, req[r].key, loc[r].day)
                /\ loc'[r].old = CounterOf(req[r].key, loc[r].day)]_vars

\* both cases have happened: a call that lost the creation of the row decided
\* on the count its rival committed, and a call decided on an existing row
\* after its holder committed
C31_Witness ==
    \E r, q \in Reqs :
        /\ r # q /\ req[r].key = req[q].key
        /\ committed[r] /\ Allowed(r) /\ req[r].count > 0
        /\ result[q].set /\ loc[q].read /\ loc[q].retried
        /\ loc[q].old = result[r].current_count

C33_CountNeverDecreases ==
    /\ [](\A u \in daily_usage : u.count \in Nat)
    /\ [][\A u \in daily_usage :
            \E v \in daily_usage' :
                /\ v.id = u.id /\ v.api_key_id = u.api_key_id /\ v.day = u.day
                /\ v.count >= u.count]_vars

\* the count has grown by an accepted send whose delivery failed, and the
\* other request, a peek or a send that was refused, has ended
C33_Witness ==
    \E r, q \in Reqs :
        /\ DeliveryFailed(r)
        /\ CounterOf("k1", today) = seed + 1
        /\ pc[q] = "done" /\ outcome[q] \in {"200", "429", "500"}

\* the (key, day) pairs that have a committed counter row
CounterRows(U) == {<<u.api_key_id, u.day>> : u \in U}

\* the step is taken by the peek r: a call with a requested count of 0
PeekStep(r) == req[r].count = 0 /\ pc[r] # "idle" /\ pc'[r] # pc[r]

\* C34: counter rows are created by sends only: a peek, the call with count 0
\* the usage endpoint makes, on a (key, day) without a counter row leaves the
\* set of committed counter rows as it is.
C34_PeekCreatesNoRow ==
    [][\A r \in Reqs :
          PeekStep(r) => CounterRows(daily_usage') = CounterRows(daily_usage)]_vars

\* the ids of the committed send log rows of key k
AuditOf(k) == {l.id : l \in {m \in send_log : m.api_key_id = k}}

AuditFailed(r) == faulted[r] = "audit"

Running(r) == pc[r] \notin {"idle", "done"}

\* request r has ended with a response and holds no counter row
Finished(r) == pc[r] = "done" /\ outcome[r] # "none" /\ txn[r].held = "none"

\* C37: no deadlock: while a request is running some running request can
\* take a step, a request that has ended holds no counter row, and under
\* fair scheduling every send and usage request that has arrived ends with a
\* response, its row lock released by commit or rollback; this includes the
\* losers of the insert race and the denied requests.
C37_EveryRequestFinishes ==
    /\ []((\E r \in Reqs : Running(r)) =>
            \E q \in Reqs : Running(q) /\ ENABLED Handler(q))
    /\ [](\A r \in Reqs : pc[r] = "done" => Finished(r))
    /\ \A r \in Reqs : Running(r) ~> Finished(r)

\* a request that lost the insert race to an accepted send has ended as the
\* winner has, and no counter row is held
C37_Witness ==
    /\ \A r \in Reqs : Finished(r)
    /\ \E r, q \in Reqs : loc[r].retried /\ outcome[q] = "202"

\* call r was denied by the comparison with the limit and the caller went on
\* with the same session
DeniedInSession(r) ==
    pc[r] = "done" /\ outcome[r] = "returned" /\ QuotaDenied(r)

\* C38: denials do not accumulate on a session: the call after a denied call
\* of the same session reads the count the denied call read, and a commit of
\* the session right after a denied call that was the first to use the session
\* leaves the committed count as it was.
C38_DenialsDoNotAccumulate ==
    /\ [](\A r \in Reqs \ {NumReqs} :
            (DeniedInSession(r) /\ loc[r + 1].read) => loc[r + 1].old = loc[r].old)
    /\ [][\A r \in Reqs :
            (pc[r] = "returned" /\ QuotaDenied(r) /\ committed'[r]
               /\ \A q \in 1..(r - 1) : outcome[q] # "returned") =>
              CounterOf("k1", today)' = CounterOf("k1", today)]_vars

\* C39: the usage endpoint reports no wrong count: when it answers 200,
\* emails_sent_today is the committed count of (key, today), and a request
\* whose limiter call ended in the handler of internal errors is not answered
\* 200.
C39_UsageNeverReportsWrongCount ==
    /\ [][\A r \in Reqs :
            UsageAnswered(r) =>
              response'[r].usage[1].emails_sent_today = CounterOf(req[r].key, today)']_vars
    /\ [](\A r \in Reqs :
            (req[r].kind = "usage" /\ faulted[r] = "limiter") => outcome[r] # "200")

====
